---------------------------- MODULE Spec2Model ----------------------------
(***************************************************************************)
(* A model of code-cast (src/src/app.ts, the current handler at lines      *)
(* 149-393): a webhook relay that authenticates a request, loads the       *)
(* configuration, resolves a listener, filters the push and runs the       *)
(* default build-and-publish pipeline.                                     *)
(*                                                                         *)
(* JavaScript values are modelled as follows.                              *)
(*   - a string is a sequence of one-character strings;                    *)
(*   - an object is a record; a property that is undefined is a field the  *)
(*     record does not have (Has(o, f) is FALSE);                          *)
(*   - an array is a sequence.                                             *)
(* The environment variables CC_AGENT, CC_EVENT_HEADER and CC_CONFIG_DIR   *)
(* are unset, so the defaults of the code apply.                           *)
(***************************************************************************)
EXTENDS Naturals, Sequences, FiniteSets, TLC

VARIABLES
    configFile,   \* what config.json holds on disk right now
    pc,           \* per request: where its handler stands
    request,      \* per request: the HTTP request received
    response,     \* per request: the outcome sent (or thrown)
    config,       \* per request: the configuration object it loaded
    listener,     \* per request: the listener it resolved
    stages,       \* per request: the stages of the handler that ran
    launched,     \* per request: the external commands launched, in order
    exited        \* per request: how many of them exited, and the last's result

vars == <<configFile, pc, request, response, config, listener, stages, launched,
          exited>>

---------------------------------------------------------------------------
(* Strings *)

Has(o, f) == f \in DOMAIN o

\* JavaScript truthiness of a string property: defined and not "".
Truthy(o, f) == Has(o, f) /\ o[f] # <<>>

\* String.prototype.startsWith
StartsWith(s, prefix) ==
    /\ Len(s) >= Len(prefix)
    /\ SubSeq(s, 1, Len(prefix)) = prefix

\* String.prototype.includes
Includes(s, sub) ==
    \E i \in 1..(Len(s) + 1) :
        /\ i + Len(sub) - 1 <= Len(s)
        /\ SubSeq(s, i, i + Len(sub) - 1) = sub

\* s.split('/').pop(): what follows the last '/', the whole of s without one.
LastSegment(s) ==
    LET slashes == {i \in 1..Len(s) : s[i] = "/"}
        last == IF slashes = {} THEN 0
                ELSE CHOOSE i \in slashes : \A j \in slashes : j <= i
    IN SubSeq(s, last + 1, Len(s))

WhiteSpace == {" ", "\n", "\t"}

\* String.prototype.trim
Trim(s) ==
    LET keep == {i \in 1..Len(s) : s[i] \notin WhiteSpace}
    IN IF keep = {} THEN <<>>
       ELSE SubSeq(s, CHOOSE i \in keep : \A j \in keep : i <= j,
                      CHOOSE i \in keep : \A j \in keep : j <= i)

UpperCase == <<"A","B","C","D","E","F","G","H","I","J","K","L","M",
               "N","O","P","Q","R","S","T","U","V","W","X","Y","Z">>
LowerCase == <<"a","b","c","d","e","f","g","h","i","j","k","l","m",
               "n","o","p","q","r","s","t","u","v","w","x","y","z">>

\* String.prototype.toLowerCase
ToLowerCase(s) ==
    [i \in 1..Len(s) |->
        IF \E k \in 1..26 : UpperCase[k] = s[i]
        THEN LowerCase[CHOOSE k \in 1..26 : UpperCase[k] = s[i]]
        ELSE s[i]]

---------------------------------------------------------------------------
(* Literals *)

POST == <<"P","O","S","T">>
GET == <<"G","E","T">>
ping == <<"p","i","n","g">>
push == <<"p","u","s","h">>
issues == <<"i","s","s","u","e","s">>

\* 'GitHub-Hookshot/', the default of requiredAgent.
requiredAgent == <<"G","i","t","H","u","b","-","H","o","o","k","s","h","o","t","/">>
\* ['ping', 'push']
allowedEvents == {ping, push}

hookshotAgent == requiredAgent \o <<"0","4","a">>
\* the required prefix without its final '/'
nearMissAgent == <<"G","i","t","H","u","b","-","H","o","o","k","s","h","o","t">>

app == <<"a","p","p">>
api == <<"a","p","i">>
ghost == <<"g","h","o","s","t">>
alice == <<"a","l","i","c","e">>
bob == <<"b","o","b">>
aliceMail == <<"a","@","x">>
bobMail == <<"b","@","x">>
aliceName == <<"A","l">>
bobName == <<"B","o">>
master == <<"m","a","s","t","e","r">>
dev == <<"d","e","v">>
refMaster == <<"r","e","f","s","/","h","e","a","d","s","/","m","a","s","t","e","r">>
refDev == <<"r","e","f","s","/","h","e","a","d","s","/","d","e","v">>
deployFlag == <<"[","d","]">>
msgFix == <<"f","i","x">>
msgDeploy == <<"g","o"," ","[","d","]">>
distIn == <<"d","i","s","t">>
distOut == <<"w","w","w">>
distOutB == <<"p","u","b">>
reposDir == <<"/","r","e","p","o","s">>
reposDirB == <<"/","o","p","t">>
serveDir == <<"/","s","r","v">>
defaultType == <<"d","e","f","a","u","l","t">>
customType == <<"c","u","s","t","o","m">>
buildScript == <<"m","a","k","e">>

\* what a template literal makes of undefined and of an object
undefinedString == <<"u","n","d","e","f","i","n","e","d">>
objectString == <<"[","o","b","j","e","c","t"," ","O","b","j","e","c","t","]">>

---------------------------------------------------------------------------
(* Responses *)

ForbiddenPage == "<html lang=\"en\"><div id=\"app\"><div>403</div><div class=\"txt\">Forbidden..."

\* reply.status(n).send()
Reply(n) == [kind |-> "reply", status |-> n, type |-> "", body |-> ""]

\* forbidden without its .status(403) call
forbiddenWithoutStatus(reply) ==
    [kind |-> "reply", status |-> 200, type |-> "text/html", body |-> ForbiddenPage]

\* forbidden(reply): reply.type('text/html').status(403).send(page)
forbidden(reply) ==
    [kind |-> "reply", status |-> 403, type |-> "text/html", body |-> ForbiddenPage]

\* an error thrown out of the handler (left to the framework's error path)
Thrown(msg) == [kind |-> "thrown", message |-> msg]

NoResponse == [kind |-> "none"]

---------------------------------------------------------------------------
(* The request handler, up to its first await *)

\* the guard without its method test
AuthenticatedAnyMethod(req) ==
    /\ Has(req.headers, "user-agent")
    /\ StartsWith(req.headers["user-agent"], requiredAgent)
    /\ Has(req.headers, "x-github-event")
    /\ req.headers["x-github-event"] \in allowedEvents

\* the negation of the guard of the first if: method is POST, the agent
\* starts with requiredAgent, the event is one of allowedEvents
Authenticated(req) ==
    /\ req.method = POST
    /\ Has(req.headers, "user-agent")
    /\ StartsWith(req.headers["user-agent"], requiredAgent)
    /\ Has(req.headers, "x-github-event")
    /\ req.headers["x-github-event"] \in allowedEvents

\* retrieveConfig(): the parsed file, or a throw when it cannot be read or parsed
ConfigReadable(file) == file.readable

\* payload.repository?.name is truthy
HasRepositoryName(payload) ==
    /\ Has(payload, "repository")
    /\ Truthy(payload.repository, "name")

\* the last listener of that repository in place of the first
FindLast(cfg, name) ==
    LET hits == IF Has(cfg, "listeners")
                THEN {i \in 1..Len(cfg.listeners) : cfg.listeners[i].repository = name}
                ELSE {}
    IN IF hits = {} THEN 0 ELSE CHOOSE i \in hits : \A j \in hits : j <= i

\* find falling back to the first listener when none matches
FindOrFirst(cfg, name) ==
    LET hits == IF Has(cfg, "listeners")
                THEN {i \in 1..Len(cfg.listeners) : cfg.listeners[i].repository = name}
                ELSE {}
    IN IF hits # {} THEN CHOOSE i \in hits : \A j \in hits : i <= j
       ELSE IF Has(cfg, "listeners") /\ Len(cfg.listeners) > 0 THEN 1 ELSE 0

\* config?.listeners?.find(l => l.repository === name): the index of the
\* first listener of that repository, 0 for undefined
Find(cfg, name) ==
    LET hits == IF Has(cfg, "listeners")
                THEN {i \in 1..Len(cfg.listeners) : cfg.listeners[i].repository = name}
                ELSE {}
    IN IF hits = {} THEN 0 ELSE CHOOSE i \in hits : \A j \in hits : i <= j

\* the pusher check with the username alone
PusherNotAllowedByUsername(l, payload) ==
    /\ Has(l, "filters")
    /\ Truthy(l.filters, "username")
    /\ ~ ( /\ Has(payload, "pusher")
           /\ Has(payload.pusher, "username")
           /\ payload.pusher.username = l.filters.username )

\* the pusher check of filter: some set field differs from payload.pusher's
PusherNotAllowed(l, payload) ==
    /\ Has(l, "filters")
    /\ \E f \in {"username", "email", "name"} :
          /\ Truthy(l.filters, f)
          /\ ~ ( /\ Has(payload, "pusher")
                 /\ Has(payload.pusher, f)
                 /\ payload.pusher[f] = l.filters[f] )

\* the branch check without !listener.branch: no branch, no constraint
BranchNotAllowedWhenSet(l, payload) ==
    /\ Truthy(l, "branch")
    /\ (~ Has(payload, "ref") \/ l.branch # LastSegment(payload.ref))

\* !listener.branch || listener.branch !== payload.ref?.split('/').pop()
BranchNotAllowed(l, payload) ==
    \/ ~ Truthy(l, "branch")
    \/ ~ Has(payload, "ref")
    \/ l.branch # LastSegment(payload.ref)

\* the commit-flag check with every in the place of some
CommitFlagNotInEvery(l, payload) ==
    /\ Truthy(l, "commitFlag")
    /\ ~ ( /\ Has(payload, "commits")
           /\ \A i \in 1..Len(payload.commits) :
                 Includes(payload.commits[i].message, l.commitFlag) )

\* listener.commitFlag && !payload.commits?.some(c => c.message.includes(flag))
CommitFlagNotFound(l, payload) ==
    /\ Truthy(l, "commitFlag")
    /\ ~ ( /\ Has(payload, "commits")
           /\ \E i \in 1..Len(payload.commits) :
                 Includes(payload.commits[i].message, l.commitFlag) )

\* a filter that lets every push through
filterNothing(l, payload) == TRUE

filter(l, payload) ==
    IF PusherNotAllowed(l, payload) THEN FALSE
    ELSE IF BranchNotAllowed(l, payload) THEN FALSE
    ELSE IF CommitFlagNotFound(l, payload) THEN FALSE
    ELSE TRUE

---------------------------------------------------------------------------
(* External commands *)

\* `${value}` of a string property: the string, or 'undefined'
Template(o, f) == IF Has(o, f) THEN o[f] ELSE undefinedString

\* `${repoDir}/${repoName}`: the working copy
WorkingCopy(cfg, l) == Template(cfg, "reposDirectory") \o <<"/">> \o l.repository

\* `${dist}` where dist is listener.dist, an object {in, out}
DistString(l) == IF Has(l, "dist") THEN objectString ELSE undefinedString

BranchCommand(cfg, l) ==
    [cmd |-> "git rev-parse --abbrev-ref HEAD", cwd |-> WorkingCopy(cfg, l)]
PullCommand(cfg, l) == [cmd |-> "git pull", cwd |-> WorkingCopy(cfg, l)]
InstallCommand(cfg, l) == [cmd |-> "npm run install", cwd |-> WorkingCopy(cfg, l)]
BuildCommand(cfg, l) == [cmd |-> "npm run build", cwd |-> WorkingCopy(cfg, l)]
\* mv ${repoDir}/${repoName}/${dist}/* ${serveDir}/${repoName}
MoveCommand(cfg, l) ==
    [cmd |-> "mv",
     from |-> WorkingCopy(cfg, l) \o <<"/">> \o DistString(l) \o <<"/", "*">>,
     to |-> Template(cfg, "serveDirectory") \o <<"/">> \o l.repository]

\* What promisify(child_process.exec) settles with, after .catch(r => r):
\* {stdout, stderr} when the command exits with 0, an Error carrying stdout,
\* stderr and code otherwise. Neither has a property named exitCode.
Resolved(out, err) == [stdout |-> out, stderr |-> err]
Rejected(out, err, code) == [stdout |-> out, stderr |-> err, code |-> code]

warning == <<"w","a","r","n">>
fatal == <<"f","a","t","a","l">>

BranchResults ==
    {Resolved(b \o <<"\n">>, <<>>) : b \in {master, dev, ToLowerCase(master) \o <<" ">>,
                                             <<"M","a","s","t","e","r">>}}
    \cup {Rejected(<<>>, fatal, 128)}

StepResults ==
    {Resolved(<<>>, e) : e \in {<<>>, warning}}
    \cup {Rejected(<<>>, e, 1) : e \in {<<>>, fatal}}

---------------------------------------------------------------------------
(* The handler *)

NotLoaded == [loaded |-> FALSE]
Loaded(cfg) == [loaded |-> TRUE, value |-> cfg]
NotFound == [found |-> FALSE]
Found(cfg, i) == [found |-> TRUE, index |-> i, value |-> cfg.listeners[i]]

Outcome(resp, cfg, lsn, ran, cmds) ==
    [response |-> resp, config |-> cfg, listener |-> lsn, stages |-> ran,
     launched |-> cmds, pc |-> IF resp = NoResponse THEN "branch" ELSE "done"]

\* the dispatch without its test of strategy.type
DispatchAnyType(cfg, lsn, ran) ==
    Outcome(NoResponse, Loaded(cfg), lsn, ran \cup {"strategy", "default"},
            <<BranchCommand(cfg, lsn.value)>>)

\* listener.strategy.type === 'default' ? executeDefaultStrategy(...) : 501
Dispatch(cfg, lsn, ran) ==
    LET l == lsn.value
        ran2 == ran \cup {"strategy"}
    IN IF ~ Has(l, "strategy")
       THEN Outcome(Thrown("TypeError"), Loaded(cfg), lsn, ran2, <<>>)
       ELSE IF Has(l.strategy, "type") /\ l.strategy.type = defaultType
       THEN Outcome(NoResponse, Loaded(cfg), lsn, ran2 \cup {"default"},
                    <<BranchCommand(cfg, l)>>)
       ELSE Outcome(Reply(501), Loaded(cfg), lsn, ran2, <<>>)

\* the handler from the payload on: lines 181-209
HandlePush(req, cfg) ==
    LET ran == {"authenticate", "retrieveConfig"} IN
    IF ~ Has(req, "body")
    THEN Outcome(Thrown("TypeError"), Loaded(cfg), NotFound, ran, <<>>)
    ELSE IF ~ HasRepositoryName(req.body)
    THEN Outcome(Reply(400), Loaded(cfg), NotFound, ran, <<>>)
    ELSE LET i == Find(cfg, req.body.repository.name) IN
         IF i = 0
         THEN Outcome(Reply(400), Loaded(cfg), NotFound, ran \cup {"find"}, <<>>)
         ELSE IF ~ filter(cfg.listeners[i], req.body)
         THEN Outcome(forbidden(req), Loaded(cfg), Found(cfg, i),
                      ran \cup {"find", "filter"}, <<>>)
         ELSE Dispatch(cfg, Found(cfg, i), ran \cup {"find", "filter"})

\* the handler from the request to its first await (or its reply): lines 163-210
Handle(req, file) ==
    IF ~ Authenticated(req)
    THEN Outcome(forbidden(req), NotLoaded, NotFound, {"authenticate"}, <<>>)
    ELSE IF ~ ConfigReadable(file)
    THEN Outcome(Thrown("Application is not configured."), NotLoaded, NotFound,
                 {"authenticate", "retrieveConfig"}, <<>>)
    ELSE IF req.headers["x-github-event"] = ping
    THEN Outcome(Reply(200), Loaded(file.json), NotFound,
                 {"authenticate", "retrieveConfig"}, <<>>)
    ELSE HandlePush(req, file.json)

---------------------------------------------------------------------------
(* Inputs *)

\* The requests in flight. rateLimit lets max: 2 requests a minute through to
\* the handler, so two handlers at most run in one window.
Req == {1, 2}

\* the objects with some of the properties `fields`, each drawn from vals[f]
Objects(fields, vals) ==
    UNION {{o \in [S -> UNION {vals[f] : f \in fields}] : \A f \in S : o[f] \in vals[f]}
           : S \in SUBSET fields}

Dist == [in |-> distIn, out |-> distOut]

ListenerApp ==
    [filters |-> [username |-> alice], repository |-> app, branch |-> master,
     dist |-> Dist, strategy |-> [type |-> defaultType]]
ListenerApi ==
    [repository |-> api, branch |-> master, commitFlag |-> deployFlag,
     dist |-> Dist, strategy |-> [type |-> customType, script |-> buildScript]]
\* a second listener of the repository of ListenerApp
ListenerAppDev ==
    [repository |-> app, branch |-> dev, dist |-> Dist,
     strategy |-> [type |-> defaultType]]
\* ListenerApp after an edit of the file: only dist.out differs
ListenerAppEdited ==
    [filters |-> [username |-> alice], repository |-> app, branch |-> master,
     dist |-> [in |-> distIn, out |-> distOutB], strategy |-> [type |-> defaultType]]
\* ListenerApi after an edit of the file: the commit flag is gone
ListenerApiEdited ==
    [repository |-> api, branch |-> master,
     dist |-> Dist, strategy |-> [type |-> customType, script |-> buildScript]]

ConfigA ==
    [reposDirectory |-> reposDir, serveDirectory |-> serveDir,
     listeners |-> <<ListenerApp, ListenerApi, ListenerAppDev>>]
ConfigB ==
    [reposDirectory |-> reposDir, serveDirectory |-> serveDir,
     listeners |-> <<ListenerAppEdited, ListenerApiEdited>>]
\* a file with no listeners property
ConfigBare == [reposDirectory |-> reposDirB, serveDirectory |-> serveDir]

Unreadable == [readable |-> FALSE]
File(cfg) == [readable |-> TRUE, json |-> cfg]

ConfigFiles == {Unreadable, File(ConfigA), File(ConfigB), File(ConfigBare)}

Payloads ==
    {[after |-> "sha"] @@ repo @@ who @@ ref @@ commits :
        repo \in {<<>>} \cup {[repository |-> [name |-> n]] : n \in {<<>>, app, api, ghost}},
        who \in {[pusher |-> [username |-> u]] : u \in {alice, bob}},
        ref \in {[ref |-> x] : x \in {refMaster, refDev}},
        commits \in {[commits |-> c] : c \in {<<>>, <<[message |-> msgDeploy]>>}}}

Methods == {POST, GET}

Headers ==
    {[host |-> "cast"] @@ agent @@ event :
        agent \in {<<>>} \cup {("user-agent" :> a) : a \in {hookshotAgent, nearMissAgent}},
        event \in {<<>>} \cup {("x-github-event" :> e) : e \in {ping, push, issues}}}

PayloadAppAliceMaster ==
    [after |-> "sha", repository |-> [name |-> app], pusher |-> [username |-> alice],
     ref |-> refMaster, commits |-> <<>>]

\* Every method and header combination, with no body or with a push payload;
\* the authenticated pushes carry every payload.
Requests ==
    {[method |-> m, headers |-> h] @@ b :
        m \in Methods, h \in Headers, b \in {<<>>, [body |-> PayloadAppAliceMaster]}}
    \cup {[method |-> POST, body |-> p,
           headers |-> [host |-> "cast"] @@ ("user-agent" :> hookshotAgent)
                           @@ ("x-github-event" :> push)] : p \in Payloads}

\* the longest commit list of the filter's inputs
MaxCommits == 2

Messages == {msgFix, msgDeploy}

CommitLists ==
    UNION {[1..n -> {[message |-> m] : m \in Messages}] : n \in 0..MaxCommits}

\* listeners of one repository with every combination of filter settings
FilterListeners ==
    {[repository |-> app, dist |-> Dist, strategy |-> [type |-> defaultType]]
        @@ who @@ branch @@ flag :
        who \in {<<>>} \cup
            {[filters |-> o] :
                o \in Objects({"username", "email", "name"},
                              [username |-> {<<>>, alice}, email |-> {aliceMail},
                               name |-> {aliceName}])},
        branch \in {<<>>} \cup {[branch |-> b] : b \in {<<>>, master}},
        flag \in {<<>>} \cup {[commitFlag |-> c] : c \in {<<>>, deployFlag}}}

FilterFiles ==
    {File([reposDirectory |-> reposDir, serveDirectory |-> serveDir,
           listeners |-> <<l>>]) : l \in FilterListeners}

refMasterUpper ==
    <<"r","e","f","s","/","h","e","a","d","s","/","M","a","s","t","e","r">>
refMasterSlash == refMaster \o <<"/">>

\* pushers: alice in full, alice with one field of bob's, alice with fields
\* missing, and a pusher object with nothing the filter reads
Pushers ==
    {[username |-> alice, email |-> aliceMail, name |-> aliceName],
     [username |-> bob, email |-> aliceMail, name |-> aliceName],
     [username |-> alice, email |-> bobMail, name |-> aliceName],
     [username |-> alice, email |-> aliceMail, name |-> bobName],
     [username |-> alice, email |-> aliceMail],
     [username |-> alice],
     [date |-> "today"]}

FilterPayloads ==
    {[repository |-> [name |-> app]] @@ who @@ ref @@ commits :
        who \in {<<>>} \cup {[pusher |-> o] : o \in Pushers},
        ref \in {<<>>} \cup
            {[ref |-> x] : x \in {master, refMaster, refDev, refMasterUpper,
                                  refMasterSlash}},
        commits \in {<<>>} \cup {[commits |-> c] : c \in CommitLists}}

\* an authenticated push carrying payload p
PushRequest(p) ==
    [method |-> POST, body |-> p,
     headers |-> [host |-> "cast"] @@ ("user-agent" :> hookshotAgent)
                    @@ ("x-github-event" :> push)]

---------------------------------------------------------------------------
(* Actions *)

NoneExited == [n |-> 0]

Init ==
    /\ configFile \in ConfigFiles
    /\ pc = [r \in Req |-> "idle"]
    /\ request = [r \in Req |-> [method |-> <<>>]]
    /\ response = [r \in Req |-> NoResponse]
    /\ config = [r \in Req |-> NotLoaded]
    /\ listener = [r \in Req |-> NotFound]
    /\ stages = [r \in Req |-> {}]
    /\ launched = [r \in Req |-> <<>>]
    /\ exited = [r \in Req |-> NoneExited]

\* config.json is edited between or during requests
EditConfig(file) ==
    /\ file # configFile
    /\ configFile' = file
    /\ UNCHANGED <<pc, request, response, config, listener, stages, launched, exited>>

\* a request handled with the configuration an earlier request loaded
ReceiveCached(r, req) ==
    /\ pc[r] = "idle"
    /\ LET cached == {q \in Req : config[q].loaded}
           file == IF cached = {} THEN configFile
                   ELSE File(config[CHOOSE q \in cached : TRUE].value)
           o == Handle(req, file)
       IN
        /\ request' = [request EXCEPT ![r] = req]
        /\ pc' = [pc EXCEPT ![r] = o.pc]
        /\ response' = [response EXCEPT ![r] = o.response]
        /\ config' = [config EXCEPT ![r] = o.config]
        /\ listener' = [listener EXCEPT ![r] = o.listener]
        /\ stages' = [stages EXCEPT ![r] = o.stages]
        /\ launched' = [launched EXCEPT ![r] = o.launched]
    /\ UNCHANGED <<configFile, exited>>

\* a request that waits until no other request's pipeline is running
ReceiveExclusive(r, req) ==
    /\ pc[r] = "idle"
    /\ \A o \in Req : pc[o] \in {"idle", "done"}
    /\ LET o == Handle(req, configFile) IN
        /\ request' = [request EXCEPT ![r] = req]
        /\ pc' = [pc EXCEPT ![r] = o.pc]
        /\ response' = [response EXCEPT ![r] = o.response]
        /\ config' = [config EXCEPT ![r] = o.config]
        /\ listener' = [listener EXCEPT ![r] = o.listener]
        /\ stages' = [stages EXCEPT ![r] = o.stages]
        /\ launched' = [launched EXCEPT ![r] = o.launched]
    /\ UNCHANGED <<configFile, exited>>

\* a request arrives and its handler runs to its reply or its first await
Receive(r, req) ==
    /\ pc[r] = "idle"
    /\ LET o == Handle(req, configFile) IN
        /\ request' = [request EXCEPT ![r] = req]
        /\ pc' = [pc EXCEPT ![r] = o.pc]
        /\ response' = [response EXCEPT ![r] = o.response]
        /\ config' = [config EXCEPT ![r] = o.config]
        /\ listener' = [listener EXCEPT ![r] = o.listener]
        /\ stages' = [stages EXCEPT ![r] = o.stages]
        /\ launched' = [launched EXCEPT ![r] = o.launched]
    /\ UNCHANGED <<configFile, exited>>

\* the awaited command of request r exits with result res
Exit(r, step, res) ==
    exited' = [exited EXCEPT ![r] = [n |-> @.n + 1, step |-> step, result |-> res]]

\* a failure caught and answered like a success
ThrowSwallowed(r, msg) ==
    /\ pc' = [pc EXCEPT ![r] = "done"]
    /\ response' = [response EXCEPT ![r] = Reply(200)]
    /\ UNCHANGED <<configFile, request, config, listener, stages, launched>>

\* a failure answered with a bare 400 in place of the throw
ThrowAsBadRequest(r, msg) ==
    /\ pc' = [pc EXCEPT ![r] = "done"]
    /\ response' = [response EXCEPT ![r] = Reply(400)]
    /\ UNCHANGED <<configFile, request, config, listener, stages, launched>>

\* the handler throws out of executeDefaultStrategy
Throw(r, msg) ==
    /\ pc' = [pc EXCEPT ![r] = "done"]
    /\ response' = [response EXCEPT ![r] = Thrown(msg)]
    /\ UNCHANGED <<configFile, request, config, listener, stages, launched>>

\* a launch that also starts the command over
LaunchTwice(r, step, cmd) ==
    /\ pc' = [pc EXCEPT ![r] = step]
    /\ launched' = [launched EXCEPT ![r] = Append(Append(@, cmd), cmd)]
    /\ UNCHANGED <<configFile, request, response, config, listener, stages>>

\* the handler launches its next command and awaits it
Launch(r, step, cmd) ==
    /\ pc' = [pc EXCEPT ![r] = step]
    /\ launched' = [launched EXCEPT ![r] = Append(@, cmd)]
    /\ UNCHANGED <<configFile, request, response, config, listener, stages>>

\* the comparison, made only when the command reported something
BranchMismatchWhenReported(res, branch) ==
    /\ res.stdout # <<>>
    /\ ToLowerCase(Trim(res.stdout)) # ToLowerCase(Trim(branch))

\* branchOut.trim().toLowerCase() !== branch.trim().toLowerCase()
BranchMismatch(res, branch) ==
    ToLowerCase(Trim(res.stdout)) # ToLowerCase(Trim(branch))

\* installError && installExitCode !== 0, exitCode being a property of the result
ErrorAndNonZeroExit(res) ==
    /\ res.stderr # <<>>
    /\ (~ Has(res, "exitCode") \/ res.exitCode # 0)

\* git rev-parse exits: lines 225-239
BranchExit(r, res) ==
    /\ pc[r] = "branch"
    /\ Exit(r, "branch", res)
    /\ IF BranchMismatch(res, listener[r].value.branch)
       THEN Throw(r, "Branch mismatch, server may be misconfigured")
       ELSE Launch(r, "pull", PullCommand(config[r].value, listener[r].value))

\* git pull exits: lines 240-254
PullExit(r, res) ==
    /\ pc[r] = "pull"
    /\ Exit(r, "pull", res)
    /\ IF res.stderr # <<>>
       THEN Throw(r, "Error pulling from remote, server may be misconfigured")
       ELSE Launch(r, "install", InstallCommand(config[r].value, listener[r].value))

\* npm run install exits: lines 255-275
InstallExit(r, res) ==
    /\ pc[r] = "install"
    /\ Exit(r, "install", res)
    /\ IF ErrorAndNonZeroExit(res)
       THEN Throw(r, "Error installing deps, server may be misconfigured")
       ELSE Launch(r, "build", BuildCommand(config[r].value, listener[r].value))

\* npm run build exits: lines 276-296
BuildExit(r, res) ==
    /\ pc[r] = "build"
    /\ Exit(r, "build", res)
    /\ IF ErrorAndNonZeroExit(res)
       THEN Throw(r, "Error building application, server may be misconfigured")
       ELSE Launch(r, "move", MoveCommand(config[r].value, listener[r].value))

\* a handler whose promise resolves and nothing is sent
HandlerPending == NoResponse

\* the handler's promise resolves with undefined: the framework sends 200
HandlerReturned == Reply(200)

\* mv exits: lines 297-311
MoveExit(r, res) ==
    /\ pc[r] = "move"
    /\ Exit(r, "move", res)
    /\ IF res.stderr # <<>>
       THEN Throw(r, "Error moving files, server may be misconfigured")
       ELSE /\ pc' = [pc EXCEPT ![r] = "done"]
            /\ response' = [response EXCEPT ![r] = HandlerReturned]
            /\ stages' = [stages EXCEPT ![r] = @ \cup {"published"}]
            /\ UNCHANGED <<configFile, request, config, listener, launched>>

Next ==
    \/ \E file \in ConfigFiles : EditConfig(file)
    \/ \E r \in Req, req \in Requests : Receive(r, req)
    \/ \E r \in Req, res \in BranchResults : BranchExit(r, res)
    \/ \E r \in Req, res \in StepResults : PullExit(r, res)
    \/ \E r \in Req, res \in StepResults : InstallExit(r, res)
    \/ \E r \in Req, res \in StepResults : BuildExit(r, res)
    \/ \E r \in Req, res \in StepResults : MoveExit(r, res)

Spec == Init /\ [][Next]_vars

\* The filter on its own: one listener of every kind, one push of every kind.
InitFilter ==
    /\ configFile \in FilterFiles
    /\ pc = [r \in Req |-> "idle"]
    /\ request = [r \in Req |-> [method |-> <<>>]]
    /\ response = [r \in Req |-> NoResponse]
    /\ config = [r \in Req |-> NotLoaded]
    /\ listener = [r \in Req |-> NotFound]
    /\ stages = [r \in Req |-> {}]
    /\ launched = [r \in Req |-> <<>>]
    /\ exited = [r \in Req |-> NoneExited]

NextFilter == \E p \in FilterPayloads : Receive(1, PushRequest(p))

SpecFilter == InitFilter /\ [][NextFilter]_vars

\* One handler on its own: a single request and its pipeline.
NextOne ==
    \/ \E file \in ConfigFiles : EditConfig(file)
    \/ \E req \in Requests : Receive(1, req)
    \/ \E res \in BranchResults : BranchExit(1, res)
    \/ \E res \in StepResults : PullExit(1, res)
    \/ \E res \in StepResults : InstallExit(1, res)
    \/ \E res \in StepResults : BuildExit(1, res)
    \/ \E res \in StepResults : MoveExit(1, res)

SpecOne == Init /\ [][NextOne]_vars

\* Every command that was launched exits: an awaited exec settles, and the
\* event loop resumes the handler that awaits it.
CommandsExit ==
    /\ WF_vars(\E res \in BranchResults : BranchExit(1, res))
    /\ WF_vars(\E res \in StepResults : PullExit(1, res))
    /\ WF_vars(\E res \in StepResults : InstallExit(1, res))
    /\ WF_vars(\E res \in StepResults : BuildExit(1, res))
    /\ WF_vars(\E res \in StepResults : MoveExit(1, res))

SpecOneLive == Init /\ [][NextOne]_vars /\ CommandsExit

---------------------------------------------------------------------------
(* What the claims speak of, stated on the request and the configuration   *)
(* a handler saw, without the operators of the handler                     *)

Received(r) == pc[r] # "idle"

MethodIsPost(r) == request[r].method = POST

\* the client-identifier header is present and begins with 'GitHub-Hookshot/'
AgentValid(r) ==
    /\ "user-agent" \in DOMAIN request[r].headers
    /\ \E rest \in {SubSeq(request[r].headers["user-agent"], k,
                           Len(request[r].headers["user-agent"]))
                    : k \in 1..(Len(request[r].headers["user-agent"]) + 1)} :
          request[r].headers["user-agent"] = requiredAgent \o rest

EventIs(r, e) ==
    /\ "x-github-event" \in DOMAIN request[r].headers
    /\ request[r].headers["x-github-event"] = e

AuthenticatedPush(r) ==
    Received(r) /\ MethodIsPost(r) /\ AgentValid(r) /\ EventIs(r, push)

ForbiddenResponse(r) ==
    /\ response[r].kind = "reply"
    /\ response[r].status = 403
    /\ response[r].type = "text/html"
    /\ response[r].body = ForbiddenPage

StatusIs(r, n) == response[r].kind = "reply" /\ response[r].status = n

\* the handler stopped in the authenticator
RejectedByAuthenticator(r) == Received(r) /\ stages[r] = {"authenticate"}

NoCommand(r) == launched[r] = <<>>

\* the payload names a repository
NamesRepository(r) ==
    /\ "body" \in DOMAIN request[r]
    /\ "repository" \in DOMAIN request[r].body
    /\ "name" \in DOMAIN request[r].body.repository
    /\ request[r].body.repository.name # <<>>

\* the listeners of the loaded configuration with the payload's repository
Matching(r) ==
    IF "listeners" \in DOMAIN config[r].value
    THEN {i \in 1..Len(config[r].value.listeners) :
            config[r].value.listeners[i].repository = request[r].body.repository.name}
    ELSE {}

\* C1: a request whose method is not POST, or whose client identifier is
\* absent or lacks the required prefix, or whose event is neither ping nor
\* push, gets the forbidden response and nothing else happens for it; a
\* request meeting all three conditions is not rejected by the authenticator.
C1_Authenticator ==
    \A r \in Req :
        Received(r) =>
            IF MethodIsPost(r) /\ AgentValid(r) /\ (EventIs(r, ping) \/ EventIs(r, push))
            THEN ~ RejectedByAuthenticator(r)
            ELSE /\ ForbiddenResponse(r)
                 /\ RejectedByAuthenticator(r)
                 /\ NoCommand(r)
                 /\ ~ config[r].loaded
                 /\ ~ listener[r].found
                 /\ pc[r] = "done"

\* a GET with a valid agent and a push event was refused, and a POST with the
\* same headers went past the authenticator
C1_Witness ==
    \E r1, r2 \in Req :
        /\ Received(r1) /\ request[r1].method = GET /\ AgentValid(r1) /\ EventIs(r1, push)
        /\ ForbiddenResponse(r1)
        /\ AuthenticatedPush(r2) /\ ~ RejectedByAuthenticator(r2)

\* C2: a POST with a valid client identifier and event ping is answered 200,
\* and no pipeline runs for it.
C2_PingIs200 ==
    \A r \in Req :
        (Received(r) /\ MethodIsPost(r) /\ AgentValid(r) /\ EventIs(r, ping)) =>
            /\ StatusIs(r, 200)
            /\ NoCommand(r)
            /\ stages[r] \cap {"find", "filter", "strategy"} = {}

\* C3: an authenticated push whose payload names no repository (no name, an
\* empty name, no repository object, no body) is answered 400, and no
\* command runs. Stated for the requests whose configuration loaded.
C3_MissingNameIs400 ==
    \A r \in Req :
        (AuthenticatedPush(r) /\ config[r].loaded /\ ~ NamesRepository(r)) =>
            StatusIs(r, 400) /\ NoCommand(r)

\* C4: an authenticated push whose repository name is the repository of no
\* listener of the loaded configuration is answered 400; neither the filter
\* nor any command runs.
C4_NoListenerIs400 ==
    \A r \in Req :
        (AuthenticatedPush(r) /\ config[r].loaded /\ NamesRepository(r)
            /\ Matching(r) = {}) =>
            /\ StatusIs(r, 400)
            /\ "filter" \notin stages[r]
            /\ "strategy" \notin stages[r]
            /\ NoCommand(r)
            /\ pc[r] = "done"

\* a push for a repository no listener of a non-empty listener list names
C4_Witness ==
    \E r \in Req :
        /\ AuthenticatedPush(r) /\ config[r].loaded /\ NamesRepository(r)
        /\ "listeners" \in DOMAIN config[r].value
        /\ Matching(r) = {}
        /\ StatusIs(r, 400)

\* the listener the handler resolved fails one of the checks of its filter
FilterRejects(r) ==
    /\ AuthenticatedPush(r)
    /\ listener[r].found
    /\ ~ filter(listener[r].value, request[r].body)

\* C8: when the Event Filter rejects a push, no command runs for the request
\* and the response is the forbidden response of the authenticator, status
\* and body.
C8_FilterRejectionIsForbidden ==
    \A r \in Req :
        FilterRejects(r) =>
            /\ NoCommand(r)
            /\ "strategy" \notin stages[r]
            /\ pc[r] = "done"
            /\ ForbiddenResponse(r)
            /\ \A a \in Req : RejectedByAuthenticator(a) => response[a] = response[r]

\* one request refused by the filter beside one refused by the authenticator
C8_Witness ==
    \E r, a \in Req :
        /\ FilterRejects(r) /\ pc[r] = "done"
        /\ RejectedByAuthenticator(a) /\ pc[a] = "done"

\* no listener of the loaded configuration has the payload's repository
NoListener(r) ==
    /\ AuthenticatedPush(r) /\ config[r].loaded /\ NamesRepository(r)
    /\ Matching(r) = {}

\* the two requests differ in the repository name of their payloads only
DifferInRepositoryOnly(r1, r2) ==
    /\ request[r1].method = request[r2].method
    /\ request[r1].headers = request[r2].headers
    /\ request[r1].body.repository.name # request[r2].body.repository.name
    /\ [request[r1].body EXCEPT !.repository = request[r2].body.repository]
          = request[r2].body

\* C9 as claimed: of two pushes that differ only in the repository named, one
\* with no listener and one refused by the filter, both get the same response.
C9_Indistinguishable ==
    \A r1, r2 \in Req :
        (NoListener(r1) /\ FilterRejects(r2) /\ DifferInRepositoryOnly(r1, r2)) =>
            response[r1] = response[r2]

\* C9 as amended: every push the filter refuses gets one and the same
\* response whichever check failed, and a push for a repository with no
\* listener gets a bare 400, which differs from it.
C9_FilterFailuresAlike ==
    \A r1, r2 \in Req :
        /\ (FilterRejects(r1) /\ FilterRejects(r2)) => response[r1] = response[r2]
        /\ (NoListener(r1) /\ FilterRejects(r2)) =>
              /\ response[r1] = [kind |-> "reply", status |-> 400, type |-> "", body |-> ""]
              /\ response[r1] # response[r2]

\* a push for an unknown repository beside the same push for a known one that
\* the filter refuses
C9_Witness ==
    \E r1, r2 \in Req :
        /\ NoListener(r1) /\ FilterRejects(r2) /\ DifferInRepositoryOnly(r1, r2)
        /\ pc[r1] = "done" /\ pc[r2] = "done"

\* the handler resolved a listener whose strategy.type is custom
ResolvedCustom(r) ==
    /\ AuthenticatedPush(r)
    /\ listener[r].found
    /\ "strategy" \in DOMAIN listener[r].value
    /\ "type" \in DOMAIN listener[r].value.strategy
    /\ listener[r].value.strategy.type = customType

\* C10 as claimed: a push that resolves to a custom listener is answered 501
\* whatever its payload holds.
C10_CustomIs501 ==
    \A r \in Req : ResolvedCustom(r) => StatusIs(r, 501)

\* C10 as amended: a push that resolves to a custom listener is answered 501
\* when its payload passes the listener's filter and with the forbidden
\* response when it does not; no command runs either way.
C10_CustomIs501WhenFilterPasses ==
    \A r \in Req :
        ResolvedCustom(r) =>
            /\ NoCommand(r)
            /\ pc[r] = "done"
            /\ IF FilterRejects(r) THEN ForbiddenResponse(r) ELSE StatusIs(r, 501)

\* a custom listener answered 501 and, for another payload, forbidden
C10_Witness ==
    \E r1, r2 \in Req :
        /\ ResolvedCustom(r1) /\ ~ FilterRejects(r1) /\ StatusIs(r1, 501)
        /\ ResolvedCustom(r2) /\ FilterRejects(r2) /\ ForbiddenResponse(r2)

---------------------------------------------------------------------------
(* The filter's claims, under SpecFilter *)

TheListener(r) == listener[r].value
ThePayload(r) == request[r].body

\* the handler went on from the filter to the Strategy Executor
FilterPassed(r) == "strategy" \in stages[r]

Set(o, f) == f \in DOMAIN o /\ o[f] # <<>>

\* b is what follows the last '/' of ref (all of ref when it has none)
IsLastSegmentOf(b, ref) ==
    /\ \A i \in 1..Len(b) : b[i] # "/"
    /\ \E pre \in {SubSeq(ref, 1, k) : k \in 0..Len(ref)} :
          /\ ref = pre \o b
          /\ pre # <<>> => pre[Len(pre)] = "/"

BranchMatches(l, p) ==
    /\ Set(l, "branch")
    /\ "ref" \in DOMAIN p
    /\ IsLastSegmentOf(l.branch, p.ref)

\* some identity field the listener sets differs from the pusher's (or the
\* pusher has none)
IdentityMismatch(l, p) ==
    /\ "filters" \in DOMAIN l
    /\ \/ /\ Set(l.filters, "username")
          /\ ("pusher" \in DOMAIN p /\ "username" \in DOMAIN p.pusher)
                => p.pusher.username # l.filters.username
       \/ /\ Set(l.filters, "email")
          /\ ("pusher" \in DOMAIN p /\ "email" \in DOMAIN p.pusher)
                => p.pusher.email # l.filters.email
       \/ /\ Set(l.filters, "name")
          /\ ("pusher" \in DOMAIN p /\ "name" \in DOMAIN p.pusher)
                => p.pusher.name # l.filters.name

\* msg = before \o flag \o after, for some before and after
Contains(msg, flag) ==
    \E i \in 0..Len(msg), j \in 1..(Len(msg) + 1) :
        msg = SubSeq(msg, 1, i) \o flag \o SubSeq(msg, j, Len(msg))

SomeCommitContains(p, flag) ==
    /\ "commits" \in DOMAIN p
    /\ \E i \in DOMAIN p.commits : Contains(p.commits[i].message, flag)

FlagSatisfied(l, p) == Set(l, "commitFlag") => SomeCommitContains(p, l.commitFlag)

Filtered(r) == AuthenticatedPush(r) /\ listener[r].found

C6_IdentityFilter ==
    \A r \in Req :
        Filtered(r) =>
            /\ IdentityMismatch(TheListener(r), ThePayload(r)) =>
                  /\ ~ FilterPassed(r)
                  /\ ForbiddenResponse(r)
                  /\ NoCommand(r)
            /\ ( /\ ~ IdentityMismatch(TheListener(r), ThePayload(r))
                 /\ BranchMatches(TheListener(r), ThePayload(r))
                 /\ FlagSatisfied(TheListener(r), ThePayload(r)) ) => FilterPassed(r)

\* a push by the right username and the wrong email was rejected, its branch
\* and its commits being right
C6_Witness ==
    \E r \in Req :
        /\ Filtered(r)
        /\ Set(TheListener(r), "filters")
        /\ Set(TheListener(r).filters, "username") /\ Set(TheListener(r).filters, "email")
        /\ "pusher" \in DOMAIN ThePayload(r)
        /\ Set(ThePayload(r).pusher, "username") /\ Set(ThePayload(r).pusher, "email")
        /\ ThePayload(r).pusher.username = TheListener(r).filters.username
        /\ ThePayload(r).pusher.email # TheListener(r).filters.email
        /\ BranchMatches(TheListener(r), ThePayload(r))
        /\ FlagSatisfied(TheListener(r), ThePayload(r))
        /\ ForbiddenResponse(r)

\* C7: for a payload that passes the identity and branch checks, a listener
\* with commitFlag set passes exactly when some commit message contains the
\* flag (so not with an empty or absent commit list), and a listener without
\* commitFlag passes whatever the commits are.
C7_CommitFlag ==
    \A r \in Req :
        ( /\ Filtered(r)
          /\ ~ IdentityMismatch(TheListener(r), ThePayload(r))
          /\ BranchMatches(TheListener(r), ThePayload(r)) ) =>
            IF Set(TheListener(r), "commitFlag")
            THEN FilterPassed(r) <=>
                    SomeCommitContains(ThePayload(r), TheListener(r).commitFlag)
            ELSE FilterPassed(r)

\* two commits, only the second with the flag, passed the filter
C7_Witness ==
    \E r \in Req :
        /\ Filtered(r) /\ FilterPassed(r)
        /\ Set(TheListener(r), "commitFlag")
        /\ "commits" \in DOMAIN ThePayload(r)
        /\ Len(ThePayload(r).commits) = 2
        /\ ~ Contains(ThePayload(r).commits[1].message, TheListener(r).commitFlag)
        /\ Contains(ThePayload(r).commits[2].message, TheListener(r).commitFlag)

---------------------------------------------------------------------------
(* The default pipeline *)

StepNames == <<"branch", "pull", "install", "build", "move">>

\* the handler went into executeDefaultStrategy
DefaultStarted(r) == "default" \in stages[r]

\* the last command of request r that exited is the one awaited at `step`
LastExited(r, step) == exited[r].n > 0 /\ exited[r].step = step

\* the command exited with a non-zero code
NonZeroExit(res) == "code" \in DOMAIN res

Blank(s) == \A i \in 1..Len(s) : s[i] \in WhiteSpace

EqualIgnoringCase(x, y) ==
    /\ Len(x) = Len(y)
    /\ \A i \in 1..Len(x) : ToLowerCase(<<x[i]>>) = ToLowerCase(<<y[i]>>)

\* out is the branch b in some letter case, with white space around it
ReportsBranch(out, b) ==
    \E i \in 1..(Len(out) + 1), j \in 0..Len(out) :
        /\ Blank(SubSeq(out, 1, i - 1))
        /\ Blank(SubSeq(out, j + 1, Len(out)))
        /\ EqualIgnoringCase(SubSeq(out, i, j), b)

\* the branch query failed and reported nothing
ReportsNothing(res) == NonZeroExit(res) /\ res.stdout = <<>>

BranchMismatchFailure(r) ==
    /\ pc[r] = "done"
    /\ response[r] = Thrown("Branch mismatch, server may be misconfigured")

\* the commands request r launched, by name
CommandNames(r) == [i \in 1..Len(launched[r]) |-> launched[r][i].cmd]

\* C11: in the default pipeline, when the branch query reports a branch that
\* differs from the listener's branch (trimmed, letter case ignored), or
\* reports nothing because it failed, the pipeline ends in the branch-mismatch
\* failure and the request launches no pull, install, build or move command.
C11_BranchMismatchStops ==
    \A r \in Req :
        /\ (/\ LastExited(r, "branch")
            /\ \/ ~ ReportsBranch(exited[r].result.stdout, TheListener(r).branch)
               \/ ReportsNothing(exited[r].result))
           => BranchMismatchFailure(r)
        /\ BranchMismatchFailure(r)
           => CommandNames(r) = <<"git rev-parse --abbrev-ref HEAD">>

\* the query named another branch than the listener's and the pipeline ended
C11_Witness ==
    \E r \in Req :
        /\ LastExited(r, "branch")
        /\ exited[r].result.stdout = dev \o <<"\n">>
        /\ TheListener(r).branch = master
        /\ BranchMismatchFailure(r)

\* C12: the default pipeline is fail-fast for every way a step can fail: when
\* the pull, install or build command fails, a non-zero exit with no error
\* output included, no later command of the pipeline is launched; move is
\* launched only after every command before it succeeded.
C12_FailFast ==
    \A r \in Req, k \in 2..4 :
        (LastExited(r, StepNames[k]) /\ NonZeroExit(exited[r].result))
            => Len(launched[r]) = k

\* the pipeline of request r ended in a thrown error at the step `step`
FailedAt(r, step) ==
    /\ LastExited(r, step)
    /\ pc[r] = "done"
    /\ response[r].kind = "thrown"

\* C13: the install and build steps fail only when the command both wrote to
\* its error output and exited with a non-zero code; a command that wrote
\* warnings to its error output and exited with code 0 is tolerated, and the
\* pipeline launches the next command.
C13_WarningsTolerated ==
    \A r \in Req, k \in 3..4 :
        /\ FailedAt(r, StepNames[k])
           => (exited[r].result.stderr # <<>> /\ NonZeroExit(exited[r].result))
        /\ (/\ LastExited(r, StepNames[k])
            /\ exited[r].result.stderr # <<>>
            /\ ~ NonZeroExit(exited[r].result))
           => (pc[r] = StepNames[k + 1] /\ Len(launched[r]) = k + 1)

\* request r launched its move command
MoveLaunched(r) == Len(launched[r]) = 5 /\ launched[r][5].cmd = "mv"

\* the listeners of the two requests differ in dist.out only, and their
\* configurations name the same directories
DifferInDistOutOnly(r1, r2) ==
    /\ config[r1].value.reposDirectory = config[r2].value.reposDirectory
    /\ config[r1].value.serveDirectory = config[r2].value.serveDirectory
    /\ TheListener(r1).dist.out # TheListener(r2).dist.out
    /\ [TheListener(r1) EXCEPT !.dist.out = TheListener(r2).dist.out] = TheListener(r2)

\* C14: the move command takes the build output from the listener's dist.in
\* folder and places it in the destination named by the listener's dist.out;
\* two listeners of one repository that differ in dist.out only publish to
\* different destinations.
C14_PublishedToDistOut ==
    /\ \A r \in Req :
          MoveLaunched(r)
            => /\ Contains(launched[r][5].from, TheListener(r).dist.in)
               /\ Contains(launched[r][5].to, TheListener(r).dist.out)
    /\ \A r1, r2 \in Req :
          (MoveLaunched(r1) /\ MoveLaunched(r2) /\ DifferInDistOutOnly(r1, r2))
            => launched[r1][5].to # launched[r2][5].to

\* two listeners that differ in dist.out only, both at the move command
C14_SamePlace ==
    \E r1, r2 \in Req :
        /\ MoveLaunched(r1) /\ MoveLaunched(r2) /\ DifferInDistOutOnly(r1, r2)
        /\ launched[r1][5].to = launched[r2][5].to

\* one of the commands of request r's pipeline is running
InPipeline(r) == pc[r] \in {StepNames[k] : k \in 1..5}

\* the directory the commands of request r run in
WorkingCopyOf(r) == launched[r][1].cwd

\* C15: nothing excludes one request's pipeline from another's. While the
\* pipeline of one request runs, the same push, arriving as another request
\* under the same configuration, goes straight into its own pipeline; two
\* pipelines run in one working copy at once, one at its move command while
\* the other is at its build command.
C15_NoMutualExclusion ==
    \A r1, r2 \in Req :
        (/\ r1 # r2
         /\ InPipeline(r1)
         /\ pc[r2] = "idle"
         /\ configFile = File(config[r1].value))
        => ENABLED (/\ Receive(r2, request[r1])
                    /\ pc'[r2] = "branch"
                    /\ launched'[r2] = <<launched[r1][1]>>)

C15_Witness ==
    \E r1, r2 \in Req :
        /\ r1 # r2
        /\ pc[r1] = "move" /\ pc[r2] = "build"
        /\ WorkingCopyOf(r1) = WorkingCopyOf(r2)

\* the commands of the default pipeline, in the order of the code
PipelineOrder ==
    <<"git rev-parse --abbrev-ref HEAD", "git pull", "npm run install",
      "npm run build", "mv">>

\* how many commands of request r are running
Running(r) == Len(launched[r]) - exited[r].n

\* the commands of request r so far are a prefix of the pipeline's order, and
\* at most the last of them is running
InOrder(r) ==
    /\ Len(launched[r]) <= 5
    /\ CommandNames(r) = SubSeq(PipelineOrder, 1, Len(launched[r]))
    /\ Running(r) \in {0, 1}
    /\ Running(r) = 1 <=> InPipeline(r)
    /\ InPipeline(r) => pc[r] = StepNames[Len(launched[r])]
    /\ exited[r].n > 0 => exited[r].step = StepNames[exited[r].n]

\* a step that launches for request r launches one command, when every
\* command launched before it has exited
LaunchesAfterExit(r) ==
    launched'[r] # launched[r]
        => /\ Len(launched'[r]) = Len(launched[r]) + 1
           /\ SubSeq(launched'[r], 1, Len(launched[r])) = launched[r]
           /\ exited'[r].n = Len(launched[r])

\* C16: within one request the commands are launched in the order branch
\* query, pull, install, build, move, each at most once; at most one of them
\* is running at any time, and a command is launched only when the one before
\* it has exited.
C16_StrictOrder ==
    /\ [](\A r \in Req : InOrder(r))
    /\ [][\A r \in Req : LaunchesAfterExit(r)]_vars

\* the five commands were launched and the last of them is running
C16_Witness ==
    \E r \in Req :
        /\ CommandNames(r) = PipelineOrder
        /\ pc[r] = "move"
        /\ exited[r].n = 4

\* the errors the five steps end the pipeline with
FailureMessages ==
    <<"Branch mismatch, server may be misconfigured",
      "Error pulling from remote, server may be misconfigured",
      "Error installing deps, server may be misconfigured",
      "Error building application, server may be misconfigured",
      "Error moving files, server may be misconfigured">>

\* the five commands exited and the last step, the move, found no error
AllStepsSucceeded(r) ==
    /\ ~ InPipeline(r)
    /\ exited[r].n = 5
    /\ exited[r].result.stderr = <<>>

EmptyOk(r) ==
    /\ response[r].kind = "reply"
    /\ response[r].status = 200
    /\ response[r].body = ""

\* C17: a push that passed the filter on a default listener has no response
\* while a command of its pipeline runs. When the pipeline has ended, the
\* response is a 200 with an empty body if and only if all five steps
\* succeeded; a pipeline that ended at a step's failure leaves that step's
\* error thrown out of the handler, never a reply of any status. A step
\* succeeds or fails here as the pipeline itself decides it.
C17_ResponseFollowsPipeline ==
    \A r \in Req :
        DefaultStarted(r) =>
            /\ InPipeline(r) => response[r].kind = "none"
            /\ ~ InPipeline(r) =>
                  /\ pc[r] = "done"
                  /\ EmptyOk(r) <=> AllStepsSucceeded(r)
                  /\ ~ AllStepsSucceeded(r) =>
                        response[r] = [kind |-> "thrown",
                                       message |-> FailureMessages[exited[r].n]]

\* a pipeline that ended at the failure of its build step
C17_Witness ==
    \E r \in Req :
        /\ DefaultStarted(r)
        /\ FailedAt(r, "build")
        /\ response[r].message = FailureMessages[4]

\* a pipeline that ended with its five steps done
C17_WitnessOk ==
    \E r \in Req : DefaultStarted(r) /\ AllStepsSucceeded(r) /\ EmptyOk(r)

\* the two requests, their configurations and their listeners are the same,
\* and the pipelines of both have ended
AlikeUpToFilter(r1, r2) ==
    /\ r1 # r2
    /\ DefaultStarted(r1) /\ DefaultStarted(r2)
    /\ request[r1] = request[r2]
    /\ config[r1] = config[r2]
    /\ listener[r1] = listener[r2]
    /\ pc[r1] = "done" /\ pc[r2] = "done"

\* both pipelines succeeded, or both ended at the failure of the same step
EndedAlike(r1, r2) ==
    \/ AllStepsSucceeded(r1) /\ AllStepsSucceeded(r2)
    \/ /\ ~ AllStepsSucceeded(r1) /\ ~ AllStepsSucceeded(r2)
       /\ exited[r1].n = exited[r2].n

\* C18, as stated: once the filter passes, the response does not depend on the
\* outcome of the deployment; two requests alike up to the filter stage get
\* the same response whether their pipelines succeed or fail at any step.
C18_Decoupled ==
    \A r1, r2 \in Req :
        AlikeUpToFilter(r1, r2) => response[r1] = response[r2]

\* C18, amended: once the filter passes on a default listener, the response
\* depends on the outcome of the deployment, through the step the pipeline
\* ended at and nothing else: two requests alike up to the filter stage get
\* the same response exactly when both pipelines succeeded or both failed at
\* the same step, whatever the commands wrote.
C18_CoupledByOutcomeOnly ==
    \A r1, r2 \in Req :
        AlikeUpToFilter(r1, r2)
            => (response[r1] = response[r2] <=> EndedAlike(r1, r2))

\* one pipeline succeeded, the other failed at its build step, and the two
\* responses differ
C18_Witness ==
    \E r1, r2 \in Req :
        /\ AlikeUpToFilter(r1, r2)
        /\ AllStepsSucceeded(r1) /\ EmptyOk(r1)
        /\ FailedAt(r2, "build")
        /\ response[r1] # response[r2]

\* the step is the handling of request r up to its reply or first command
Handled(r) == pc[r] = "idle" /\ pc'[r] # "idle"

\* the command runs in the working copy the configuration cfg and the
\* listener l name, and a move command moves to cfg's serve directory
RunsUnder(cmd, cfg, l) ==
    /\ "cwd" \in DOMAIN cmd => cmd.cwd = cfg.reposDirectory \o <<"/">> \o l.repository
    /\ "from" \in DOMAIN cmd
          => StartsWith(cmd.from, cfg.reposDirectory \o <<"/">> \o l.repository)
    /\ "to" \in DOMAIN cmd => cmd.to = cfg.serveDirectory \o <<"/">> \o l.repository

\* request r is handled with the file as it is at that moment
LoadsCurrentFile(r) ==
    (Handled(r) /\ stages'[r] # {"authenticate"} /\ configFile.readable)
        => /\ config'[r] = [loaded |-> TRUE, value |-> configFile.json]
           /\ listener'[r].found
                 => /\ listener'[r].index \in DOMAIN configFile.json.listeners
                    /\ listener'[r].value
                          = configFile.json.listeners[listener'[r].index]
           /\ launched'[r] # <<>>
                 => RunsUnder(launched'[r][1], configFile.json, listener'[r].value)

\* a request under way keeps what it loaded, whatever the file becomes
KeepsWhatItLoaded(r) ==
    pc[r] # "idle"
        => /\ config'[r] = config[r]
           /\ listener'[r] = listener[r]
           /\ launched'[r] # launched[r]
                 => RunsUnder(launched'[r][Len(launched'[r])],
                              config[r].value, listener[r].value)

\* C19: the configuration is loaded afresh by every request and never cached:
\* a request is resolved, filtered and given its pipeline arguments from the
\* file as it is when the request is handled, so a request that follows a
\* change of the file uses the changed one; a pipeline under way keeps the
\* configuration and the listener it loaded at its start.
C19_FreshConfiguration ==
    [][\A r \in Req : LoadsCurrentFile(r) /\ KeepsWhatItLoaded(r)]_vars

\* the file changed while one pipeline ran, and the next request runs under
\* the changed file
C19_Witness ==
    \E r1, r2 \in Req :
        /\ InPipeline(r1) /\ InPipeline(r2)
        /\ request[r1] = request[r2]
        /\ config[r1].value # config[r2].value
        /\ TheListener(r1).dist.out # TheListener(r2).dist.out
        /\ configFile = File(config[r2].value)
        /\ exited[r1].n > exited[r2].n

\* the push of request r is resolved: some listener has its repository
Resolvable(r) ==
    /\ AuthenticatedPush(r) /\ config[r].loaded /\ NamesRepository(r)
    /\ Matching(r) # {}

\* the first, in the order of the configuration, of the listeners of the
\* payload's repository
FirstMatching(r) == CHOOSE i \in Matching(r) : \A j \in Matching(r) : i <= j

ListenerAt(r, i) == config[r].value.listeners[i]

\* C20: when several listeners have the payload's repository, the first of
\* them in the order of the configuration is the one the push is filtered by
\* and dispatched to; when it fails the filter the push is forbidden and no
\* command runs, even if a later listener of the repository would pass.
C20_FirstMatchWins ==
    \A r \in Req :
        Resolvable(r) =>
            /\ listener[r].found
            /\ listener[r].index = FirstMatching(r)
            /\ listener[r].value = ListenerAt(r, FirstMatching(r))
            /\ FilterPassed(r) <=> filter(ListenerAt(r, FirstMatching(r)), ThePayload(r))
            /\ ~ FilterPassed(r) => (ForbiddenResponse(r) /\ NoCommand(r))
            /\ \A k \in 1..Len(launched[r]) :
                  RunsUnder(launched[r][k], config[r].value,
                            ListenerAt(r, FirstMatching(r)))

\* the first listener of the repository fails the filter, a later one would
\* pass it, and the push is forbidden
C20_Witness ==
    \E r \in Req :
        /\ Resolvable(r)
        /\ ~ filter(ListenerAt(r, FirstMatching(r)), ThePayload(r))
        /\ \E i \in Matching(r) :
              /\ i > FirstMatching(r)
              /\ filter(ListenerAt(r, i), ThePayload(r))
              /\ ListenerAt(r, i).strategy.type = defaultType
        /\ ForbiddenResponse(r) /\ NoCommand(r) /\ pc[r] = "done"

---------------------------------------------------------------------------
(* Termination *)

\* the response of request r is one of the terminal outcomes
TerminalOutcome(r) ==
    \/ StatusIs(r, 200)
    \/ StatusIs(r, 400)
    \/ ForbiddenResponse(r)
    \/ StatusIs(r, 501)
    \/ response[r].kind = "thrown"

Ended(r) == pc[r] = "done" /\ TerminalOutcome(r)

\* a request has an outcome exactly when it has ended, and none while one of
\* its commands runs
OutcomeWhenEnded(r) ==
    /\ pc[r] = "done" => TerminalOutcome(r)
    /\ pc[r] # "done" => response[r].kind = "none"

\* an outcome, once there, stays; and a request whose command runs gets one
\* only in the step in which that command exits
OutcomeOnceAndOnExit(r) ==
    /\ response[r].kind # "none" => response'[r] = response[r]
    /\ (InPipeline(r) /\ exited'[r] = exited[r]) => response'[r] = response[r]

\* C21: every request the handler received ends in exactly one terminal
\* outcome (200, 400, forbidden, 501 or a thrown error), given that every
\* command that is launched exits. Nothing but the exit of its command ends a
\* request that awaits one: while the command has not exited the request has
\* no response.
C21_EveryRequestEnds ==
    /\ [](\A r \in Req : OutcomeWhenEnded(r))
    /\ [][\A r \in Req : OutcomeOnceAndOnExit(r)]_vars
    /\ \A r \in Req : Received(r) ~> Ended(r)

\* a request whose pipeline ran three commands and then ended
C21_Witness ==
    \E r \in Req :
        /\ Ended(r)
        /\ exited[r].n = 3
        /\ Len(launched[r]) = 3

---------------------------------------------------------------------------
(* What stands before a command *)

\* the listener of request r is one of the loaded configuration whose
\* repository is the payload's
ListenerOfRepository(r) ==
    /\ listener[r].found
    /\ listener[r].index \in Matching(r)
    /\ TheListener(r) = ListenerAt(r, listener[r].index)

\* the listener's strategy type is default
StrategyIsDefault(r) ==
    /\ "strategy" \in DOMAIN TheListener(r)
    /\ "type" \in DOMAIN TheListener(r).strategy
    /\ TheListener(r).strategy.type = defaultType

\* C22: in every reachable state, a request for which a command was launched
\* is a POST with a valid client identifier and the event push, its
\* configuration loaded, a listener was found for the repository of its
\* payload, the identity, branch and commit-flag checks of that listener all
\* passed against the payload, and the listener's strategy type is default;
\* the branch its pipeline verifies is the last segment of the payload's ref.
C22_CommandsOnlyAfterAllChecks ==
    \A r \in Req :
        launched[r] # <<>> =>
            /\ MethodIsPost(r) /\ AgentValid(r) /\ EventIs(r, push)
            /\ config[r].loaded
            /\ NamesRepository(r)
            /\ ListenerOfRepository(r)
            /\ ~ IdentityMismatch(TheListener(r), ThePayload(r))
            /\ BranchMatches(TheListener(r), ThePayload(r))
            /\ FlagSatisfied(TheListener(r), ThePayload(r))
            /\ StrategyIsDefault(r)
            /\ TheListener(r).branch = LastSegment(ThePayload(r).ref)

\* a request whose listener names a pusher and a branch, at its pull command
C22_Witness ==
    \E r \in Req :
        /\ pc[r] = "pull"
        /\ CommandNames(r) = SubSeq(PipelineOrder, 1, 2)
        /\ Set(TheListener(r).filters, "username")
        /\ ThePayload(r).pusher.username = TheListener(r).filters.username
        /\ ThePayload(r).ref = refMaster
        /\ TheListener(r).branch = master

===========================================================================
